---------------------------- MODULE Spec2Model ----------------------------
(***************************************************************************)
(* A model of export_calibre_library.py: the locator (find_calibredb),     *)
(* the extractor (run_calibredb, get_all_books_metadata), the per-record   *)
(* transform (process_book_metadata) and the writer (export_all_books).    *)
(*                                                                         *)
(* Python strings are sequences of one-character strings, so that split,   *)
(* strip, the path functions and the f-strings are computed character by   *)
(* character.  A JSON value of unknown type is a record                    *)
(*   [t: type tag, s: characters, n: integer, l: list of strings].         *)
(***************************************************************************)
EXTENDS Integers, Sequences, FiniteSets, TLC

VARIABLES
    pc,             \* position of the process in main / export_all_books
    exitStatus,     \* <<>> while running or killed, <<n>> once exited with n
    args,           \* parsed command line: calibredb, limit, no_covers
    calibredb_path, \* result of find_calibredb, <<>> before it returned
    library,        \* what get_all_books_metadata returned
    raw_books,      \* local raw_books of export_all_books
    books_data,     \* local books_data
    metadata_dict,  \* local metadata_dict
    idx,            \* number of loop iterations finished in the current loop
    disk,           \* source files: [exists, unreadable] sets of paths
    covers,         \* files under <output>/covers: name -> source copied
    counts,         \* [copied, missing] counters of the cover loop
    books_js,       \* [state: "absent"/"partial"/"complete", books, map]
    metadata_js,    \* the same for metadata.js
    viewer,         \* books.html in the output directory: "absent"/"copied"
    reported,       \* <<>> or <<n>>: the "Books exported: n" line
    pass,           \* which run of the cover-copy step is in progress
    snap,           \* files under covers/ when the first run finished
    call            \* a call of a pure function: [fn, in, env, out, done]

vars == <<pc, exitStatus, args, calibredb_path, library, raw_books,
          books_data, metadata_dict, idx, disk, covers, counts, books_js,
          metadata_js, viewer, reported, pass, snap, call>>

runVars == <<pc, exitStatus, args, calibredb_path, library, raw_books,
             books_data, metadata_dict, idx, disk, covers, counts, books_js,
             metadata_js, viewer, reported, pass, snap>>

-----------------------------------------------------------------------------
(* Bounds of the model *)

MaxLen == 5      \* longest authors string enumerated
MaxId == 42      \* largest book id enumerated
MaxBooks == 2    \* longest list the extractor returns

-----------------------------------------------------------------------------
(* JSON values and Python's view of them *)

Absent == [t |-> "absent", s |-> <<>>, n |-> 0, l |-> <<>>]
Null == [t |-> "null", s |-> <<>>, n |-> 0, l |-> <<>>]
VStr(x) == [t |-> "str", s |-> x, n |-> 0, l |-> <<>>]
VInt(k) == [t |-> "int", s |-> <<>>, n |-> k, l |-> <<>>]
VList(x) == [t |-> "list", s |-> <<>>, n |-> 0, l |-> x]
\* a mapping holding at most the key 'uuid' (l = <<>>: no such key)
VDict(x) == [t |-> "dict", s |-> <<>>, n |-> 0, l |-> x]

\* dict.get(key, default)
Get(v, default) == IF v.t = "absent" THEN default ELSE v

\* bool(v)
Truthy(v) ==
    CASE v.t = "str" -> Len(v.s) > 0
      [] v.t = "int" -> v.n # 0
      [] v.t = "list" -> Len(v.l) > 0
      [] v.t = "dict" -> Len(v.l) > 0
      [] OTHER -> FALSE

DigitChar(d) == <<"0", "1", "2", "3", "4", "5", "6", "7", "8", "9">>[d + 1]

RECURSIVE Digits(_)
Digits(k) == IF k < 10 THEN <<DigitChar(k)>>
             ELSE Digits(k \div 10) \o <<DigitChar(k % 10)>>

\* str(v), for the types the model enumerates
PyStr(v) ==
    CASE v.t = "str" -> v.s
      [] v.t = "int" -> IF v.n < 0 THEN <<"-">> \o Digits(-v.n) ELSE Digits(v.n)
      [] v.t = "null" -> <<"N", "o", "n", "e">>

Whitespace == {" "}

RECURSIVE LStrip(_)
LStrip(s) == IF s # <<>> /\ Head(s) \in Whitespace THEN LStrip(Tail(s)) ELSE s

RECURSIVE RStrip(_)
RStrip(s) == IF s # <<>> /\ s[Len(s)] \in Whitespace
             THEN RStrip(SubSeq(s, 1, Len(s) - 1)) ELSE s

\* str.strip()
Strip(s) == RStrip(LStrip(s))

\* str.split(sep) for a one-character separator: scan left to right, closing
\* the current segment at each separator
RECURSIVE SplitFrom(_, _, _)
SplitFrom(s, sep, cur) ==
    IF s = <<>> THEN <<cur>>
    ELSE IF Head(s) = sep THEN <<cur>> \o SplitFrom(Tail(s), sep, <<>>)
    ELSE SplitFrom(Tail(s), sep, Append(cur, Head(s)))

Split(s, sep) == SplitFrom(s, sep, <<>>)

-----------------------------------------------------------------------------
(* os.path on POSIX *)

IsAbs(p) == p # <<>> /\ Head(p) = "/"

RECURSIVE RFind(_, _)
\* index of the last c in p, 0 when there is none
RFind(p, c) == IF p = <<>> THEN 0
               ELSE IF p[Len(p)] = c THEN Len(p)
               ELSE RFind(SubSeq(p, 1, Len(p) - 1), c)

RECURSIVE RStripSlash(_)
RStripSlash(p) == IF p # <<>> /\ p[Len(p)] = "/"
                  THEN RStripSlash(SubSeq(p, 1, Len(p) - 1)) ELSE p

Dirname(p) ==
    LET head == SubSeq(p, 1, RFind(p, "/"))
    IN  IF head # <<>> /\ \E k \in 1..Len(head) : head[k] # "/"
        THEN RStripSlash(head) ELSE head

Join(a, b) ==
    IF IsAbs(b) THEN b
    ELSE IF a = <<>> \/ a[Len(a)] = "/" THEN a \o b
    ELSE a \o <<"/">> \o b

-----------------------------------------------------------------------------
(* find_calibredb *)

\* "/Applications/calibre.app/Contents/ebook-viewer.app/Contents/MacOS/calibredb"
DEFAULT_CALIBREDB ==
    <<
       "/", "A", "p", "p", "l", "i", "c", "a", "t", "i", "o", "n", "s",
       "/", "c", "a", "l", "i", "b", "r", "e", ".", "a", "p", "p", "/",
       "C", "o", "n", "t", "e", "n", "t", "s", "/", "e", "b", "o", "o",
       "k", "-", "v", "i", "e", "w", "e", "r", ".", "a", "p", "p", "/",
       "C", "o", "n", "t", "e", "n", "t", "s", "/", "M", "a", "c", "O",
       "S", "/", "c", "a", "l", "i", "b", "r", "e", "d", "b"
    >>

\* A faulty variant: the default path is tried before the explicit one.
find_calibredb_swapped(custom_path, exists, which) ==
    IF DEFAULT_CALIBREDB \in exists
    THEN [exit |-> FALSE, path |-> DEFAULT_CALIBREDB]
    ELSE IF Truthy(custom_path) /\ custom_path.s \in exists
    THEN [exit |-> FALSE, path |-> custom_path.s]
    ELSE IF Truthy(which) THEN [exit |-> FALSE, path |-> which.s]
    ELSE [exit |-> TRUE, path |-> <<>>]

\* find_calibredb(custom_path) in an environment where the paths of `exists`
\* exist and shutil.which("calibredb") returns `which` (None or a path).
\* exit = TRUE stands for sys.exit(1) after the guidance was printed.
find_calibredb(custom_path, exists, which) ==
    IF Truthy(custom_path) /\ custom_path.s \in exists
    THEN [exit |-> FALSE, path |-> custom_path.s]
    ELSE IF DEFAULT_CALIBREDB \in exists
    THEN [exit |-> FALSE, path |-> DEFAULT_CALIBREDB]
    ELSE IF Truthy(which) THEN [exit |-> FALSE, path |-> which.s]
    ELSE [exit |-> TRUE, path |-> <<>>]

-----------------------------------------------------------------------------
(* process_book_metadata *)

BookPrefix == <<"b", "o", "o", "k", "-">>
CoverJpg == <<"c", "o", "v", "e", "r", ".", "j", "p", "g">>

\* A faulty variant: the identifiers mapping is never consulted.
DerivedUuid_noFallback(book) ==
    LET uuid0 == Get(book.uuid, VStr(<<>>))
    IN  IF ~Truthy(uuid0)
        THEN VStr(BookPrefix \o PyStr(Get(book.id, VInt(0))))
        ELSE uuid0

\* lines 114-123: the derived identifier
DerivedUuid(book) ==
    LET uuid0 == Get(book.uuid, VStr(<<>>))
        uuid1 == IF ~Truthy(uuid0) /\ book.identifiers.t # "absent"
                 THEN IF book.identifiers.t = "dict"
                      THEN IF book.identifiers.l = <<>> THEN VStr(<<>>)
                           ELSE VStr(book.identifiers.l[1])
                      ELSE uuid0
                 ELSE uuid0
    IN  IF ~Truthy(uuid1)
        THEN VStr(BookPrefix \o PyStr(Get(book.id, VInt(0))))
        ELSE uuid1

\* A faulty variant: the segments are not trimmed.
NormAuthors_noStrip(book) ==
    LET authors == Get(book.authors, VStr(<<>>))
    IN  IF Truthy(authors)
        THEN IF authors.t = "str" THEN VList(Split(authors.s, "&"))
             ELSE IF authors.t # "list" THEN VList(<<PyStr(authors)>>)
             ELSE authors
        ELSE VList(<<>>)

\* lines 126-133: the authors
NormAuthors(book) ==
    LET authors == Get(book.authors, VStr(<<>>))
    IN  IF Truthy(authors)
        THEN IF authors.t = "str"
             THEN LET parts == Split(authors.s, "&")
                  IN  VList([k \in 1..Len(parts) |-> Strip(parts[k])])
             ELSE IF authors.t # "list" THEN VList(<<PyStr(authors)>>)
             ELSE authors
        ELSE VList(<<>>)

\* formats[0]: the first element of a list, the first character of a string
First(formats) == IF formats.t = "str" THEN <<formats.s[1]>> ELSE formats.l[1]

\* A faulty variant: the given file name is tried before cover.jpg.
ResolveCover_givenFirst(book, exists) ==
    LET cover_path == Get(book.cover, VStr(<<>>))
        formats == Get(book.formats, VList(<<>>))
    IN  IF Truthy(cover_path) /\ ~IsAbs(cover_path.s) /\ Truthy(formats)
        THEN LET book_dir == Dirname(First(formats))
             IN  IF Join(book_dir, cover_path.s) \in exists
                 THEN VStr(Join(book_dir, cover_path.s))
                 ELSE IF Join(book_dir, CoverJpg) \in exists
                 THEN VStr(Join(book_dir, CoverJpg))
                 ELSE cover_path
        ELSE cover_path

\* lines 154-170: the cover path; `exists` is the set of paths for which
\* os.path.exists is true
ResolveCover(book, exists) ==
    LET cover_path == Get(book.cover, VStr(<<>>))
        formats == Get(book.formats, VList(<<>>))
    IN  IF Truthy(cover_path) /\ ~IsAbs(cover_path.s) /\ Truthy(formats)
        THEN LET book_dir == Dirname(First(formats))
             IN  IF Join(book_dir, CoverJpg) \in exists
                 THEN VStr(Join(book_dir, CoverJpg))
                 ELSE IF Join(book_dir, cover_path.s) \in exists
                 THEN VStr(Join(book_dir, cover_path.s))
                 ELSE cover_path
        ELSE cover_path

\* The normalized book.  The fields no property below reads (tags, pubdate,
\* series, publisher, language, rating, comments, size) are computed
\* independently of the ones kept and are left out.
process_book_metadata(book, exists) ==
    [id |-> PyStr(Get(book.id, VInt(0))),
     uuid |-> DerivedUuid(book),
     title |-> Get(book.title, VStr(<<"U", "n", "k", "n", "o", "w", "n">>)),
     authors |-> NormAuthors(book),
     formats |-> Get(book.formats, VList(<<>>)),
     cover |-> ResolveCover(book, exists)]

RawBook(id, uuid, identifiers, title, authors, formats, cover) ==
    [id |-> id, uuid |-> uuid, identifiers |-> identifiers, title |-> title,
     authors |-> authors, formats |-> formats, cover |-> cover]

-----------------------------------------------------------------------------
(* The state of a process that has not been started: the value of the      *)
(* process variables in the specifications of the pure functions.          *)

NoDisk == [exists |-> {}, unreadable |-> {}]
NoArgs == [calibredb |-> Null, limit |-> <<>>, no_covers |-> FALSE]
EmptyMap == [k \in {} |-> Absent]

RunIdle ==
    /\ pc = "idle"
    /\ exitStatus = <<>>
    /\ args = NoArgs
    /\ calibredb_path = <<>>
    /\ library = <<>>
    /\ raw_books = <<>>
    /\ books_data = <<>>
    /\ metadata_dict = EmptyMap
    /\ idx = 0
    /\ disk = NoDisk
    /\ covers = EmptyMap
    /\ counts = [copied |-> 0, missing |-> 0]
    /\ books_js = [state |-> "absent", books |-> <<>>, map |-> EmptyMap]
    /\ metadata_js = [state |-> "absent", books |-> <<>>, map |-> EmptyMap]
    /\ viewer = "absent"
    /\ reported = <<>>
    /\ pass = 0
    /\ snap = {}

-----------------------------------------------------------------------------
(* SpecLocate: find_calibredb on enumerated arguments and environments *)

LocCustomPaths == {<<"/", "c">>, <<"/", "d">>}
LocWhichPaths == {<<"/", "w">>, <<"/", "c">>}
LocCustoms == {Null, VStr(<<>>)} \cup {VStr(p) : p \in LocCustomPaths}
LocWhiches == {Null} \cup {VStr(p) : p \in LocWhichPaths}
LocExists == SUBSET (LocCustomPaths \cup {DEFAULT_CALIBREDB})

InitLocate ==
    /\ RunIdle
    /\ \E c \in LocCustoms, e \in LocExists, w \in LocWhiches :
          call = [fn |-> "find_calibredb", in |-> c, exists |-> e, which |-> w,
                  out |-> [exit |-> FALSE, path |-> <<>>], done |-> FALSE]

CallFindCalibredb ==
    /\ call.fn = "find_calibredb"
    /\ ~call.done
    /\ call' = [call EXCEPT !.out = find_calibredb(call.in, call.exists, call.which),
                            !.done = TRUE]
    /\ UNCHANGED runVars

NextLocate == CallFindCalibredb

SpecLocate == InitLocate /\ [][NextLocate]_vars

-----------------------------------------------------------------------------
(* SpecBook: process_book_metadata on enumerated raw records.  The three   *)
(* groups of fields (identifier, authors, cover) are read by separate      *)
(* parts of the function, so each group is enumerated with the others at   *)
(* a fixed value.                                                          *)

Strings(chars, n) == UNION {[1..k -> chars] : k \in 0..n}

AuthorChars == {"A", "B", " ", "&"}
TitleT == VStr(<<"T">>)

UuidValues == {Absent, Null, VStr(<<>>), VStr(<<"u", "1">>)}
IdentifierValues == {Absent, Null, VDict(<<>>), VDict(<< <<>> >>),
                     VDict(<< <<"u", "2">> >>), VStr(<<"x">>)}
IdValues == {Absent, Null, VStr(<<"x", "7">>)} \cup {VInt(k) : k \in 0..MaxId}

AuthorValues ==
    {Absent, Null, VInt(0), VInt(7), VInt(MaxId), VList(<<>>),
     VList(<< <<"A">> >>), VList(<< <<" ", "A">>, <<"B", "&">> >>)}
    \cup {VStr(s) : s \in Strings(AuthorChars, MaxLen)}

DirLB == <<"/", "L", "/", "B">>
FormatValues ==
    {Absent, Null, VList(<<>>),
     VList(<< DirLB \o <<"/", "b">> >>),
     VList(<< DirLB \o <<"/", "b">>, <<"/", "M", "/", "a">> >>),
     VList(<< <<"b">> >>),
     VList(<< <<"/", "b">> >>),
     VList(<< <<"L", "/", "/", "b">> >>),
     VStr(<<"/", "L", "/", "b">>)}
CoverValues ==
    {Absent, Null, VStr(<<>>), VStr(<<"c">>), VStr(DirLB \o <<"/", "c">>),
     VStr(<<"s", "/", "c">>), VStr(CoverJpg)}
CoverFiles ==
    {DirLB \o <<"/">> \o CoverJpg, DirLB \o <<"/", "c">>,
     DirLB \o <<"/", "s", "/", "c">>,
     CoverJpg, <<"c">>, <<"/">> \o CoverJpg, <<"/", "c">>,
     <<"L", "/">> \o CoverJpg, <<"L", "/", "c">>,
     <<"/", "M", "/">> \o CoverJpg}
CoverExists == {e \in SUBSET CoverFiles : Cardinality(e) <= 2}

BookInputs ==
    {[book |-> RawBook(i, u, ids, TitleT, Absent, Absent, Absent), exists |-> {}] :
        i \in IdValues, u \in UuidValues, ids \in IdentifierValues}
    \cup
    {[book |-> RawBook(VInt(1), Absent, Absent, TitleT, a, Absent, Absent),
      exists |-> {}] : a \in AuthorValues}
    \cup
    {[book |-> RawBook(VInt(1), Absent, Absent, TitleT, Absent, f, c), exists |-> e] :
        f \in FormatValues, c \in CoverValues, e \in CoverExists}

InitBook ==
    /\ RunIdle
    /\ \E x \in BookInputs :
          call = [fn |-> "process_book_metadata", in |-> x.book,
                  exists |-> x.exists, which |-> Null,
                  out |-> process_book_metadata(
                              RawBook(Absent, Absent, Absent, Absent, Absent,
                                      Absent, Absent), {}),
                  done |-> FALSE]

CallProcessBookMetadata ==
    /\ call.fn = "process_book_metadata"
    /\ ~call.done
    /\ call' = [call EXCEPT !.out = process_book_metadata(call.in, call.exists),
                            !.done = TRUE]
    /\ UNCHANGED runVars

NextBook == CallProcessBookMetadata

SpecBook == InitBook /\ [][NextBook]_vars

-----------------------------------------------------------------------------
(* Properties of find_calibredb (SpecLocate) *)

LocGiven == call.in.t = "str" /\ call.in.s # <<>>
LocCustomHit == LocGiven /\ call.in.s \in call.exists
LocDefaultHit == DEFAULT_CALIBREDB \in call.exists
LocWhichHit == call.which.t = "str"

\* C7: find_calibredb returns the explicit path if one is given and exists;
\* otherwise the fixed default path if it exists; otherwise what the search
\* of the executable search path found; and if none of the three resolves
\* it terminates the process (non-zero status) instead of returning.
C7_ResolutionOrder ==
    (call.fn = "find_calibredb" /\ call.done) =>
        /\ LocCustomHit => call.out = [exit |-> FALSE, path |-> call.in.s]
        /\ (~LocCustomHit /\ LocDefaultHit) =>
               call.out = [exit |-> FALSE, path |-> DEFAULT_CALIBREDB]
        /\ (~LocCustomHit /\ ~LocDefaultHit /\ LocWhichHit) =>
               call.out = [exit |-> FALSE, path |-> call.which.s]
        /\ (~LocCustomHit /\ ~LocDefaultHit /\ ~LocWhichHit) => call.out.exit

\* An explicit path that exists wins although the default path exists too
\* and the search path holds another executable.
C7_Witness ==
    /\ call.fn = "find_calibredb" /\ call.done
    /\ LocCustomHit /\ LocDefaultHit /\ LocWhichHit
    /\ call.which.s # call.in.s
    /\ call.out.path = call.in.s

-----------------------------------------------------------------------------
(* Properties of process_book_metadata (SpecBook) *)

BookDone == call.fn = "process_book_metadata" /\ call.done

DigitOf(c) ==
    CASE c = "0" -> 0 [] c = "1" -> 1 [] c = "2" -> 2 [] c = "3" -> 3
      [] c = "4" -> 4 [] c = "5" -> 5 [] c = "6" -> 6 [] c = "7" -> 7
      [] c = "8" -> 8 [] c = "9" -> 9

RECURSIVE DecimalValue(_)
DecimalValue(s) == IF s = <<>> THEN 0
                   ELSE 10 * DecimalValue(SubSeq(s, 1, Len(s) - 1)) + DigitOf(s[Len(s)])

\* s is the decimal numeral of k >= 0
IsNumeralOf(s, k) ==
    /\ s # <<>>
    /\ \A j \in 1..Len(s) : s[j] \in {"0", "1", "2", "3", "4", "5", "6", "7", "8", "9"}
    /\ (Len(s) > 1 => s[1] # "0")
    /\ DecimalValue(s) = k

\* present and non-empty
NonEmpty(v) ==
    \/ v.t = "str" /\ v.s # <<>>
    \/ v.t = "int" /\ v.n # 0
    \/ v.t = "list" /\ v.l # <<>>

HasIdentifiersUuid(book) ==
    /\ book.identifiers.t = "dict"
    /\ book.identifiers.l # <<>>
    /\ book.identifiers.l[1] # <<>>

IsBookDash(u, id) ==
    /\ u.t = "str"
    /\ Len(u.s) > 5
    /\ SubSeq(u.s, 1, 5) = <<"b", "o", "o", "k", "-">>
    /\ LET rest == SubSeq(u.s, 6, Len(u.s))
       IN  CASE id.t = "absent" -> rest = <<"0">>
             [] id.t = "int" -> IsNumeralOf(rest, id.n)
             [] id.t = "str" -> rest = id.s
             [] id.t = "null" -> rest = <<"N", "o", "n", "e">>

\* C5: the derived identifier is the raw uuid when it is present and
\* non-empty, else the uuid entry of the identifiers mapping when that is
\* present and non-empty, else "book-<id>" with id defaulting to 0 (id 42
\* gives "book-42"); it is never empty.
C5_DerivedIdentifier ==
    BookDone =>
        LET b == call.in
            u == call.out.uuid
        IN  /\ NonEmpty(b.uuid) => u = b.uuid
            /\ (~NonEmpty(b.uuid) /\ HasIdentifiersUuid(b)) =>
                   u = VStr(b.identifiers.l[1])
            /\ (~NonEmpty(b.uuid) /\ ~HasIdentifiersUuid(b)) => IsBookDash(u, b.id)
            /\ (~NonEmpty(b.uuid) /\ ~HasIdentifiersUuid(b) /\ b.id = VInt(42)) =>
                   u = VStr(<<"b", "o", "o", "k", "-", "4", "2">>)
            /\ NonEmpty(u)

\* The record with id 42 and no uuid anywhere was normalized to "book-42".
C5_Witness ==
    /\ BookDone
    /\ call.in.uuid = Absent /\ call.in.identifiers = VDict(<<>>)
    /\ call.in.id = VInt(42)
    /\ call.out.uuid = VStr(<<"b", "o", "o", "k", "-", "4", "2">>)

Min(S) == CHOOSE x \in S : \A y \in S : x <= y
Max(S) == CHOOSE x \in S : \A y \in S : x >= y

AmpPositions(s) == {j \in 1..Len(s) : s[j] = "&"}
\* position of the k-th "&" of s; 0 for k = 0, Len(s) + 1 past the last one
AmpAt(s, k) ==
    IF k = 0 THEN 0
    ELSE IF k > Cardinality(AmpPositions(s)) THEN Len(s) + 1
    ELSE CHOOSE q \in AmpPositions(s) :
            Cardinality({r \in AmpPositions(s) : r < q}) = k - 1
\* the characters strictly between positions lo and hi, without the blanks
\* at either end
TrimmedBetween(s, lo, hi) ==
    LET solid == {j \in (lo + 1)..(hi - 1) : s[j] # " "}
    IN  IF solid = {} THEN <<>> ELSE SubSeq(s, Min(solid), Max(solid))

\* C8: authors given as a string are split on "&" with each segment trimmed
\* ("A & B" gives ["A", "B"]); a sequence is kept as it is; a value of
\* another type is wrapped as a one-element sequence holding its string
\* form; an empty (falsy) or absent value gives the empty sequence.
C8_Authors ==
    BookDone =>
        LET a == call.in.authors
            r == call.out.authors
        IN  /\ r.t = "list"
            /\ ~NonEmpty(a) => r.l = <<>>
            /\ (a.t = "str" /\ a.s # <<>>) =>
                  /\ Len(r.l) = Cardinality(AmpPositions(a.s)) + 1
                  /\ \A k \in 1..Len(r.l) :
                        r.l[k] = TrimmedBetween(a.s, AmpAt(a.s, k - 1), AmpAt(a.s, k))
            /\ a = VStr(<<"A", " ", "&", " ", "B">>) => r.l = << <<"A">>, <<"B">> >>
            /\ (a.t = "list" /\ a.l # <<>>) => r = a
            /\ (a.t = "int" /\ a.n # 0) =>
                  Len(r.l) = 1 /\ IsNumeralOf(r.l[1], a.n)

\* "A & B" was normalized to the two authors "A" and "B".
C8_Witness ==
    /\ BookDone
    /\ call.in.authors = VStr(<<"A", " ", "&", " ", "B">>)
    /\ call.out.authors = VList(<< <<"A">>, <<"B">> >>)

\* The directory of path p: what precedes its last "/", without the slashes
\* that end it unless it consists of slashes only.
DirOf(p) ==
    LET slashes == {j \in 1..Len(p) : p[j] = "/"}
    IN  IF slashes = {} THEN <<>>
        ELSE LET solid == {j \in 1..Max(slashes) : p[j] # "/"}
             IN  IF solid = {} THEN SubSeq(p, 1, Max(slashes))
                 ELSE SubSeq(p, 1, Max(solid))
\* the file called name in directory d
InDir(d, name) ==
    IF d = <<>> THEN name
    ELSE IF d[Len(d)] = "/" THEN d \o name
    ELSE d \o <<"/">> \o name

CoverGiven(b) == b.cover.t = "str" /\ b.cover.s # <<>>
CoverRelative(b) == CoverGiven(b) /\ b.cover.s[1] # "/"
HasFormats(b) == NonEmpty(b.formats)
FirstFormat(b) == IF b.formats.t = "list" THEN b.formats.l[1] ELSE <<b.formats.s[1]>>
\* book.get('cover', '')
CoverOrEmpty(b) == IF b.cover.t = "absent" THEN VStr(<<>>) ELSE b.cover

-----------------------------------------------------------------------------
(* The extractor *)

\* run_calibredb: outcome is what subprocess.run did.  "ok": the command
\* ran and exited 0, its standard output is returned; "CalledProcessError":
\* it exited non-zero, the error is printed and None returned; "OSError":
\* the file could not be executed, which no handler catches.
run_calibredb(outcome, stdout) ==
    CASE outcome = "ok" -> [raised |-> FALSE, none |-> FALSE, output |-> stdout]
      [] outcome = "CalledProcessError" ->
            [raised |-> FALSE, none |-> TRUE, output |-> stdout]
      [] outcome = "OSError" -> [raised |-> TRUE, none |-> TRUE, output |-> stdout]

\* parse_fallback_format
parse_fallback_format(output) == <<>>

\* get_all_books_metadata: stdout is [kind, books] with kind "empty" (no
\* output), "garbage" (json.loads raises JSONDecodeError) or "json" (an
\* array of records, books)
get_all_books_metadata(outcome, stdout) ==
    LET r == run_calibredb(outcome, stdout)
    IN  IF r.raised THEN [raised |-> TRUE, books |-> <<>>]
        ELSE IF r.none \/ r.output.kind = "empty" THEN [raised |-> FALSE, books |-> <<>>]
        ELSE IF r.output.kind = "json" THEN [raised |-> FALSE, books |-> r.output.books]
        ELSE [raised |-> FALSE, books |-> parse_fallback_format(r.output)]

-----------------------------------------------------------------------------
(* export_all_books *)

\* A faulty variant: an empty result is processed like any other.
NoBooks_never(raw) == FALSE

\* line 210: if not raw_books
NoBooks(raw) == raw = <<>>

\* raw[:n]
Prefix(raw, n) ==
    IF n >= 0 THEN SubSeq(raw, 1, IF n < Len(raw) THEN n ELSE Len(raw))
    ELSE SubSeq(raw, 1, IF Len(raw) + n > 0 THEN Len(raw) + n ELSE 0)

\* lines 216-218: limit is <<>> (None) or <<n>>; "if limit" is false for
\* None and for 0
ApplyLimit(raw, limit) ==
    IF limit # <<>> /\ limit[1] # 0 THEN Prefix(raw, limit[1]) ELSE raw

RECURSIVE JoinStr(_, _)
\* sep.join(list)
JoinStr(list, sep) ==
    IF list = <<>> THEN <<>>
    ELSE IF Len(list) = 1 THEN list[1]
    ELSE list[1] \o sep \o JoinStr(Tail(list), sep)

\* lines 232-242: the metadata entry of a normalized book (the fields that
\* process_book_metadata above keeps)
MetadataEntry(book) ==
    [title |-> book.title, creator |-> JoinStr(book.authors.l, <<",", " ">>)]

\* A faulty variant: an identifier already in the mapping keeps its entry.
PutMetadata_keepFirst(m, book) ==
    IF book.uuid \in DOMAIN m THEN m
    ELSE [k \in DOMAIN m \cup {book.uuid} |->
             IF k = book.uuid THEN MetadataEntry(book) ELSE m[k]]

\* line 232: metadata_dict[uuid] = {...}
PutMetadata(m, book) ==
    [k \in DOMAIN m \cup {book.uuid} |->
        IF k = book.uuid THEN MetadataEntry(book) ELSE m[k]]

\* line 256: the file name under covers/
CoverDest(book) == PyStr(book.uuid) \o <<".", "j", "p", "g">>

\* line 254: book.get('cover') and os.path.exists(book['cover'])
HasCover(book, d) == Truthy(book.cover) /\ book.cover.s \in d.exists

\* A faulty variant: an existing destination is not overwritten, the copy
\* goes to a new name.
CopyInto_unique(files, book) ==
    LET dest == IF CoverDest(book) \in DOMAIN files
                THEN <<"_">> \o CoverDest(book) ELSE CoverDest(book)
    IN  [k \in DOMAIN files \cup {dest} |->
            IF k = dest THEN book.cover.s ELSE files[k]]

\* line 259: shutil.copy2(book['cover'], dest_path), which creates or
\* overwrites the destination
CopyInto(files, book) ==
    [k \in DOMAIN files \cup {CoverDest(book)} |->
        IF k = CoverDest(book) THEN book.cover.s ELSE files[k]]

\* A faulty variant: metadata.js is written before books.js.
After_metadataFirst(p) ==
    CASE p = "process" -> "covers"
      [] p = "covers" -> "write_metadata"
      [] p = "write_metadata" -> "dump_metadata"
      [] p = "dump_metadata" -> "write_books"
      [] p = "write_books" -> "dump_books"
      [] p = "dump_books" -> "viewer"
      [] p = "viewer" -> "report"
      [] p = "report" -> "done"

\* The order of the steps of export_all_books after the early return: the
\* processing loop, the cover loop, books.js (open, then dump and close),
\* metadata.js (open, then dump and close), the viewer, the report.
After(p) ==
    CASE p = "process" -> "covers"
      [] p = "covers" -> "write_books"
      [] p = "write_books" -> "dump_books"
      [] p = "dump_books" -> "write_metadata"
      [] p = "write_metadata" -> "dump_metadata"
      [] p = "dump_metadata" -> "viewer"
      [] p = "viewer" -> "report"
      [] p = "report" -> "done"

-----------------------------------------------------------------------------
(* Spec: one run of the program, from main to its exit *)

C1Path == <<"/", "c", "1">>
C2Path == <<"/", "c", "2">>
UuidU == VStr(<<"u">>)

\* The records the external tool may list: two that share a uuid and one
\* without any.
RawPool ==
    {RawBook(VInt(1), UuidU, Absent, VStr(<<"A">>),
             VStr(<<"A", " ", "&", " ", "B">>), Absent, VStr(C1Path)),
     RawBook(VInt(2), UuidU, Absent, VStr(<<"B">>), Absent, Absent, VStr(C2Path)),
     RawBook(VInt(3), Absent, Absent, VStr(<<"C">>), VList(<< <<"C">> >>),
             Absent, Absent)}

Libraries == UNION {[1..k -> RawPool] : k \in 0..MaxBooks}

Limits == {<<>>} \cup {<<n>> : n \in (-1)..MaxBooks}

\* each source cover is missing, readable, or present but unreadable
Disks == {d \in [exists : SUBSET {C1Path, C2Path},
                 unreadable : SUBSET {C1Path, C2Path}] : d.unreadable \subseteq d.exists}

MainCustoms == {Null, VStr(<<"/", "c">>)}
MainExists == SUBSET {<<"/", "c">>, DEFAULT_CALIBREDB}
MainWhiches == {Null, VStr(<<"/", "w">>)}

Stdouts == {[kind |-> "empty", books |-> <<>>], [kind |-> "garbage", books |-> <<>>]}
           \cup {[kind |-> "json", books |-> b] : b \in Libraries}

NoCall == [fn |-> "none", in |-> Null, exists |-> {}, which |-> Null,
           out |-> Null, done |-> FALSE]
NoFile == [state |-> "absent", books |-> <<>>, map |-> EmptyMap]

Init ==
    /\ pc = "main"
    /\ exitStatus = <<>>
    /\ args \in [calibredb : MainCustoms, limit : Limits, no_covers : BOOLEAN]
    /\ calibredb_path = <<>>
    /\ library = <<>>
    /\ raw_books = <<>>
    /\ books_data = <<>>
    /\ metadata_dict = EmptyMap
    /\ idx = 0
    /\ disk \in Disks
    /\ covers = EmptyMap
    /\ counts = [copied |-> 0, missing |-> 0]
    /\ books_js = NoFile
    /\ metadata_js = NoFile
    /\ viewer = "absent"
    /\ reported = <<>>
    /\ pass = 1
    /\ snap = {}
    /\ call = NoCall

\* main, lines 366-370: find_calibredb either returns or exits with status 1
MainFindCalibredb ==
    /\ pc = "main"
    /\ \E e \in MainExists, w \in MainWhiches :
          LET r == find_calibredb(args.calibredb, e, w)
          IN  IF r.exit
              THEN /\ pc' = "exit_notfound"
                   /\ exitStatus' = <<1>>
                   /\ UNCHANGED calibredb_path
              ELSE /\ pc' = "get_metadata"
                   /\ calibredb_path' = r.path
                   /\ UNCHANGED exitStatus
    /\ UNCHANGED <<args, library, raw_books, books_data, metadata_dict, idx, disk,
                   covers, counts, books_js, metadata_js, viewer, reported, pass,
                   snap, call>>

\* export_all_books, lines 194-208: the call of get_all_books_metadata.  An
\* exception that nothing catches ends the process with a traceback and
\* status 1.
GetMetadata ==
    /\ pc = "get_metadata"
    /\ \E outcome \in {"ok", "CalledProcessError", "OSError"}, out \in Stdouts :
          LET r == get_all_books_metadata(outcome, out)
          IN  IF r.raised
              THEN /\ pc' = "crashed"
                   /\ exitStatus' = <<1>>
                   /\ UNCHANGED <<library, raw_books>>
              ELSE /\ pc' = "fetched"
                   /\ library' = r.books
                   /\ raw_books' = r.books
                   /\ UNCHANGED exitStatus
    /\ UNCHANGED <<args, calibredb_path, books_data, metadata_dict, idx, disk,
                   covers, counts, books_js, metadata_js, viewer, reported, pass,
                   snap, call>>

\* lines 210-218: the early return, then the limit
CheckAndLimit ==
    /\ pc = "fetched"
    /\ IF NoBooks(raw_books)
       THEN /\ pc' = "done"
            /\ exitStatus' = <<0>>
            /\ UNCHANGED raw_books
       ELSE /\ pc' = "process"
            /\ raw_books' = ApplyLimit(raw_books, args.limit)
            /\ UNCHANGED exitStatus
    /\ UNCHANGED <<args, calibredb_path, library, books_data, metadata_dict, idx,
                   disk, covers, counts, books_js, metadata_js, viewer, reported,
                   pass, snap, call>>

\* lines 224-242: one iteration of the processing loop
ProcessBook ==
    /\ pc = "process"
    /\ idx < Len(raw_books)
    /\ LET book == process_book_metadata(raw_books[idx + 1], disk.exists)
       IN  /\ books_data' = Append(books_data, book)
           /\ metadata_dict' = PutMetadata(metadata_dict, book)
    /\ idx' = idx + 1
    /\ UNCHANGED <<pc, exitStatus, args, calibredb_path, library, raw_books, disk,
                   covers, counts, books_js, metadata_js, viewer, reported, pass,
                   snap, call>>

\* lines 224 and 245: the loop is over; the cover step is skipped with
\* --no-covers
ProcessDone ==
    /\ pc = "process"
    /\ idx = Len(raw_books)
    /\ pc' = IF args.no_covers THEN After(After("process")) ELSE After("process")
    /\ idx' = 0
    /\ UNCHANGED <<exitStatus, args, calibredb_path, library, raw_books, books_data,
                   metadata_dict, disk, covers, counts, books_js, metadata_js,
                   viewer, reported, pass, snap, call>>

\* lines 253-266: one iteration of the cover loop.  copy2 raises for a
\* source that cannot be read; the exception is caught and counted.
CopyCover ==
    /\ pc = "covers"
    /\ idx < Len(books_data)
    /\ LET book == books_data[idx + 1]
       IN  IF HasCover(book, disk)
           THEN IF book.cover.s \notin disk.unreadable
                THEN /\ covers' = CopyInto(covers, book)
                     /\ counts' = [counts EXCEPT !.copied = @ + 1]
                ELSE /\ counts' = [counts EXCEPT !.missing = @ + 1]
                     /\ UNCHANGED covers
           ELSE /\ counts' = [counts EXCEPT !.missing = @ + 1]
                /\ UNCHANGED covers
    /\ idx' = idx + 1
    /\ UNCHANGED <<pc, exitStatus, args, calibredb_path, library, raw_books,
                   books_data, metadata_dict, disk, books_js, metadata_js, viewer,
                   reported, pass, snap, call>>

\* line 268: the cover loop is over
CoversDone ==
    /\ pc = "covers"
    /\ idx = Len(books_data)
    /\ pc' = After("covers")
    /\ idx' = 0
    /\ UNCHANGED <<exitStatus, args, calibredb_path, library, raw_books, books_data,
                   metadata_dict, disk, covers, counts, books_js, metadata_js,
                   viewer, reported, pass, snap, call>>

\* line 272: open(books_js_path, 'w') creates or truncates the file
OpenBooksJs ==
    /\ pc = "write_books"
    /\ books_js' = [books_js EXCEPT !.state = "partial"]
    /\ pc' = After("write_books")
    /\ UNCHANGED <<exitStatus, args, calibredb_path, library, raw_books, books_data,
                   metadata_dict, idx, disk, covers, counts, metadata_js, viewer,
                   reported, pass, snap, call>>

\* lines 273-276: the document is written and the file closed
DumpBooksJs ==
    /\ pc = "dump_books"
    /\ books_js' = [state |-> "complete", books |-> books_data, map |-> EmptyMap]
    /\ pc' = After("dump_books")
    /\ UNCHANGED <<exitStatus, args, calibredb_path, library, raw_books, books_data,
                   metadata_dict, idx, disk, covers, counts, metadata_js, viewer,
                   reported, pass, snap, call>>

\* line 281
OpenMetadataJs ==
    /\ pc = "write_metadata"
    /\ metadata_js' = [metadata_js EXCEPT !.state = "partial"]
    /\ pc' = After("write_metadata")
    /\ UNCHANGED <<exitStatus, args, calibredb_path, library, raw_books, books_data,
                   metadata_dict, idx, disk, covers, counts, books_js, viewer,
                   reported, pass, snap, call>>

\* lines 282-285
DumpMetadataJs ==
    /\ pc = "dump_metadata"
    /\ metadata_js' = [state |-> "complete", books |-> <<>>, map |-> metadata_dict]
    /\ pc' = After("dump_metadata")
    /\ UNCHANGED <<exitStatus, args, calibredb_path, library, raw_books, books_data,
                   metadata_dict, idx, disk, covers, counts, books_js, viewer,
                   reported, pass, snap, call>>

\* lines 289-302: the viewer is copied when it lies next to the script; a
\* failed copy is caught and printed; a missing viewer is noted
CopyViewer ==
    /\ pc = "viewer"
    /\ \E src \in {"missing", "copyable", "uncopyable"} :
          viewer' = IF src = "copyable" THEN "copied" ELSE viewer
    /\ pc' = After("viewer")
    /\ UNCHANGED <<exitStatus, args, calibredb_path, library, raw_books, books_data,
                   metadata_dict, idx, disk, covers, counts, books_js, metadata_js,
                   reported, pass, snap, call>>

\* lines 304-312, then main returns: exit status 0
Report ==
    /\ pc = "report"
    /\ reported' = <<Len(books_data)>>
    /\ pc' = After("report")
    /\ exitStatus' = <<0>>
    /\ UNCHANGED <<args, calibredb_path, library, raw_books, books_data,
                   metadata_dict, idx, disk, covers, counts, books_js, metadata_js,
                   viewer, pass, snap, call>>

Running == pc \notin {"idle", "done", "exit_notfound", "crashed", "killed",
                      "covers_done"}

\* The process is interrupted from outside (killed); what it wrote stays.
Interrupt ==
    /\ Running
    /\ pc' = "killed"
    /\ UNCHANGED <<exitStatus, args, calibredb_path, library, raw_books, books_data,
                   metadata_dict, idx, disk, covers, counts, books_js, metadata_js,
                   viewer, reported, pass, snap, call>>

Next ==
    \/ MainFindCalibredb
    \/ GetMetadata
    \/ CheckAndLimit
    \/ ProcessBook
    \/ ProcessDone
    \/ CopyCover
    \/ CoversDone
    \/ OpenBooksJs
    \/ DumpBooksJs
    \/ OpenMetadataJs
    \/ DumpMetadataJs
    \/ CopyViewer
    \/ Report
    \/ Interrupt

Spec == Init /\ [][Next]_vars

-----------------------------------------------------------------------------
(* SpecCovers: the cover-copy step of export_all_books run twice on the    *)
(* same output directory, with the same normalized books and the same      *)
(* source files.  The source covers lie outside <output>/covers.           *)

JpgU == <<"u", ".", "j", "p", "g">>
JpgZ == <<"z", ".", "j", "p", "g">>
\* what covers/ may hold before the first run
CoverDirs == {EmptyMap, [k \in {JpgZ} |-> <<"o", "l", "d">>],
              [k \in {JpgU, JpgZ} |-> <<"o", "l", "d">>]}

InitCovers ==
    /\ pc = "covers"
    /\ exitStatus = <<>>
    /\ args = NoArgs
    /\ calibredb_path = <<"/", "c">>
    /\ disk \in Disks
    /\ library \in Libraries
    /\ raw_books = library
    /\ books_data = [k \in 1..Len(library) |->
                        process_book_metadata(library[k], disk.exists)]
    /\ metadata_dict = EmptyMap
    /\ idx = 0
    /\ covers \in CoverDirs
    /\ counts = [copied |-> 0, missing |-> 0]
    /\ books_js = NoFile
    /\ metadata_js = NoFile
    /\ viewer = "absent"
    /\ reported = <<>>
    /\ pass = 1
    /\ snap = {}
    /\ call = NoCall

\* the first run of the step is over: the step is started again
RunAgain ==
    /\ pc = "covers"
    /\ pass = 1
    /\ idx = Len(books_data)
    /\ snap' = DOMAIN covers
    /\ pass' = 2
    /\ idx' = 0
    /\ counts' = [copied |-> 0, missing |-> 0]
    /\ UNCHANGED <<pc, exitStatus, args, calibredb_path, library, raw_books,
                   books_data, metadata_dict, disk, covers, books_js, metadata_js,
                   viewer, reported, call>>

\* the second run is over
FinishSecond ==
    /\ pc = "covers"
    /\ pass = 2
    /\ idx = Len(books_data)
    /\ pc' = "covers_done"
    /\ UNCHANGED <<exitStatus, args, calibredb_path, library, raw_books, books_data,
                   metadata_dict, idx, disk, covers, counts, books_js, metadata_js,
                   viewer, reported, pass, snap, call>>

NextCovers == CopyCover \/ RunAgain \/ FinishSecond

SpecCovers == InitCovers /\ [][NextCovers]_vars

-----------------------------------------------------------------------------
(* Properties of a run (Spec) *)

\* the processing loop of export_all_books is over
AfterLoop ==
    \/ pc \in {"covers", "write_books", "dump_books", "write_metadata",
               "dump_metadata", "viewer", "report"}
    \/ pc = "done" /\ reported # <<>>

\* C1, as stated: with zero raw records the run still writes books.js with
\* an empty books list and metadata.js with an empty mapping, and reports
\* zero books exported.
C1_EmptyStillWritten ==
    (pc = "done" /\ library = <<>>) =>
        /\ books_js.state = "complete" /\ books_js.books = <<>>
        /\ metadata_js.state = "complete" /\ metadata_js.map = EmptyMap
        /\ reported = <<0>>

\* C1, amended: with zero raw records export_all_books returns early: it
\* writes neither books.js nor metadata.js, copies no cover and no viewer,
\* prints no export report, and the process exits with status 0.
C1_EmptyReturnsEarly ==
    (pc = "done" /\ library = <<>>) =>
        /\ books_js.state = "absent"
        /\ metadata_js.state = "absent"
        /\ covers = EmptyMap
        /\ viewer = "absent"
        /\ reported = <<>>
        /\ exitStatus = <<0>>

\* A run that got no records has ended.
C1_Witness ==
    /\ pc = "done"
    /\ library = <<>>
    /\ calibredb_path # <<>>
    /\ exitStatus = <<0>>

\* C2: the process exits with a non-zero status only when the external
\* executable could not be located; after any other failure the run goes on
\* and the status is zero.
C2_NonZeroOnlyWhenNotLocated ==
    (exitStatus # <<>> /\ exitStatus # <<0>>) => pc = "exit_notfound"

\* C3: with a limit N and a raw list of size M > N exactly the first N raw
\* records are processed, in their order: the books list has length N and
\* its i-th entry is the normalization of the i-th raw record.
C3_LimitPrefix ==
    (AfterLoop /\ args.limit # <<>> /\ args.limit[1] >= 0
       /\ Len(library) > args.limit[1]) =>
        /\ Len(books_data) = args.limit[1]
        /\ \A i \in 1..Len(books_data) :
              books_data[i] = process_book_metadata(library[i], disk.exists)

LastWith(u) == Max({i \in 1..Len(books_data) : books_data[i].uuid = u})

\* C4: after the processing loop the keys of the metadata mapping are the
\* derived identifiers of the processed books, an identifier shared by
\* several books maps to the entry of the last of them in input order, and
\* the books list holds every book.
C4_MetadataKeys ==
    AfterLoop =>
        /\ DOMAIN metadata_dict = {books_data[i].uuid : i \in 1..Len(books_data)}
        /\ \A u \in DOMAIN metadata_dict :
              /\ metadata_dict[u].title = books_data[LastWith(u)].title
              /\ metadata_dict[u].creator =
                     JoinStr(books_data[LastWith(u)].authors.l, <<",", " ">>)
        /\ Len(books_data) = Len(raw_books)
        /\ \A i \in 1..Len(books_data) : books_data[i].title = raw_books[i].title

\* Two books with different titles shared an identifier; the mapping holds
\* the later one and the list holds both.
C4_Witness ==
    /\ AfterLoop
    /\ Len(books_data) = 2
    /\ books_data[1].uuid = books_data[2].uuid
    /\ books_data[1].title # books_data[2].title
    /\ metadata_dict[books_data[2].uuid].title = books_data[2].title

\* every cover-copy attempt of the run is over (none is made with
\* --no-covers)
CoverAttemptsOver ==
    args.no_covers \/ (pc # "process" /\ counts.copied + counts.missing = Len(books_data))

\* C10: in any run, interrupted or not, books.js is written only after
\* every cover-copy attempt is over, and metadata.js only after books.js is
\* completely written; metadata.js is never there without books.js.
C10_ArtifactOrder ==
    /\ books_js.state # "absent" => (AfterLoop \/ pc = "killed") /\ CoverAttemptsOver
    /\ metadata_js.state # "absent" => books_js.state = "complete"

\* A run was interrupted while metadata.js was being written: books.js is
\* complete and a cover had been copied before.
C10_Witness ==
    /\ pc = "killed"
    /\ metadata_js.state = "partial"
    /\ books_js.state = "complete"
    /\ counts.copied > 0

-----------------------------------------------------------------------------
(* Properties of the cover-copy step run twice (SpecCovers) *)

\* C6: running the cover-copy step a second time on the same output
\* directory with the same books and source files leaves the same set of
\* files under covers/ as the first run did.
C6_CoverCopyIdempotent ==
    pc = "covers_done" => DOMAIN covers = snap

\* Both runs copied a cover over an existing file and skipped another book.
C6_Witness ==
    /\ pc = "covers_done"
    /\ pass = 2
    /\ counts.copied > 0
    /\ counts.missing > 0
    /\ JpgU \in snap
    /\ covers[JpgU] # <<"o", "l", "d">>

=============================================================================
